---- MODULE Spec2Model ----
(***************************************************************************)
(* Model of budget_app.py: a Streamlit script that keeps categories and    *)
(* expenses in two worksheets of a Google spreadsheet (through gspread)    *)
(* and rebuilds an in-memory snapshot from them after every mutation.      *)
(*                                                                         *)
(* A worksheet is the sequence of its non-empty rows, row 1 first (gspread *)
(* numbers rows from 1).  Every cell is a text: a sequence of one-letter   *)
(* strings, as get_all_values returns it.  Numbers written by the program  *)
(* are stored as their decimal text (IntToStr) and read back by the        *)
(* loader's int(float(..)) (IntOfFloat), so a round trip is computed, not  *)
(* assumed.  Texts made of digits only are kept out of the name, note,     *)
(* date and id columns: get_all_records would hand those to the script as  *)
(* numbers, a case the script does not handle.                             *)
(***************************************************************************)
EXTENDS Integers, Sequences, FiniteSets, TLC

VARIABLES
    sheets,      \* titles of the worksheets that exist in the spreadsheet
    cat_ws,      \* rows of worksheet "categories"
    exp_ws,      \* rows of worksheet "expenses"
    categories,  \* st.session_state.categories: name -> category record
    loaded,      \* "categories" in st.session_state
    uuid_n,      \* number of uuid4() values drawn so far
    pc,          \* position of the script: "boot", "ready", "done"
    op,          \* the last operation run, with its arguments
    ret,         \* what the last operation returned ("raised" for an exception)
    prev_cat,    \* cat_ws before the last operation
    prev_exp,    \* exp_ws before the last operation
    prev_uuid,   \* uuid_n before the last operation
    faulty,      \* a worksheet call has failed and the failure was swallowed
    sess         \* two concurrent sessions: their position and local variables

vars == <<sheets, cat_ws, exp_ws, categories, loaded, uuid_n, pc, op, ret,
          prev_cat, prev_exp, prev_uuid, faulty, sess>>

-----------------------------------------------------------------------------
(* Bounds of the model. *)
MaxCatRows == 2
MaxExpRows == 3
MaxUuid == 3
MaxAppRows == 2
MaxStaleRows == 1
MaxRaceRows == 3

-----------------------------------------------------------------------------
(* Texts. *)
Digits == <<"0", "1", "2", "3", "4", "5", "6", "7", "8", "9">>

IsDigit(c) == \E i \in 1..10 : Digits[i] = c

DigitVal(c) == (CHOOSE i \in 1..10 : Digits[i] = c) - 1

IsSpace(c) == c = " "

RECURSIVE LStrip(_)
LStrip(s) == IF s # <<>> /\ IsSpace(Head(s)) THEN LStrip(Tail(s)) ELSE s

RECURSIVE RStrip(_)
RStrip(s) ==
    IF s # <<>> /\ IsSpace(s[Len(s)]) THEN RStrip(SubSeq(s, 1, Len(s) - 1)) ELSE s

\* str.strip(): leading and trailing whitespace removed.
Strip(s) == RStrip(LStrip(s))

RECURSIVE NatToStr(_)
NatToStr(n) ==
    IF n < 10 THEN <<Digits[n + 1]>>
    ELSE NatToStr(n \div 10) \o <<Digits[(n % 10) + 1]>>

\* The text a worksheet holds for an integer written into a cell.
IntToStr(n) == IF n < 0 THEN <<"-">> \o NatToStr(-n) ELSE NatToStr(n)

RECURSIVE DigitsVal(_, _)
DigitsVal(s, acc) ==
    IF s = <<>> THEN acc ELSE DigitsVal(Tail(s), 10 * acc + DigitVal(Head(s)))

AllDigits(s) == \A i \in 1..Len(s) : IsDigit(s[i])

DotAt(s) == IF \E i \in 1..Len(s) : s[i] = "."
            THEN CHOOSE i \in 1..Len(s) : s[i] = "." /\ \A j \in 1..(i - 1) : s[j] # "."
            ELSE 0

\* The unsigned decimal part of a float literal: digits, at most one point,
\* at least one digit.
IsDecimal(s) ==
    LET d == DotAt(s) IN
    IF d = 0 THEN s # <<>> /\ AllDigits(s)
    ELSE /\ AllDigits(SubSeq(s, 1, d - 1))
         /\ AllDigits(SubSeq(s, d + 1, Len(s)))
         /\ Len(s) > 1

Unsigned(s) == IF s # <<>> /\ Head(s) \in {"-", "+"} THEN Tail(s) ELSE s

\* float(text) succeeds (texts with an exponent, "inf" and "nan" are not drawn).
IsFloatText(s) == IsDecimal(Unsigned(Strip(s)))

\* int(float(text)): the fraction is cut off, towards zero.
IntOfFloatText(s) ==
    LET t == Strip(s)
        u == Unsigned(t)
        d == DotAt(u)
        whole == IF d = 0 THEN u ELSE SubSeq(u, 1, d - 1)
        v == DigitsVal(whole, 0)
    IN IF t # <<>> /\ Head(t) = "-" THEN -v ELSE v

\* uuid.uuid4().hex: the n-th value drawn; no two draws are equal and none
\* equals a text that was typed into the sheet by hand.
Uuid(n) == <<"u">> \o NatToStr(n)

-----------------------------------------------------------------------------
(* The worksheets' contract (gspread), on a worksheet's rows. *)
AppendRow(rows, values) == Append(rows, values)

\* delete_rows(i): the rows below move up; deleting a blank row below the
\* data leaves the data as it is.
DeleteRows(rows, i) ==
    IF i \in 1..Len(rows)
    THEN SubSeq(rows, 1, i - 1) \o SubSeq(rows, i + 1, Len(rows))
    ELSE rows

\* insert_row(values, index=i): the rows from i on move down.
InsertRow(rows, values, i) ==
    SubSeq(rows, 1, i - 1) \o <<values>> \o SubSeq(rows, i, Len(rows))

\* update_cell(i, c, value)
UpdateCell(rows, i, c, value) ==
    IF i \in 1..Len(rows) /\ c \in 1..Len(rows[i])
    THEN [rows EXCEPT ![i][c] = value]
    ELSE rows

\* row_values(i)
RowValues(rows, i) == IF i \in 1..Len(rows) THEN rows[i] ELSE <<>>

\* get_all_values(): every row, the header row included.
GetAllValues(rows) == rows

\* get_all_records(): the rows below row 1, each read under the names row 1
\* gives to the columns.
GetAllRecords(rows) == IF Len(rows) < 2 THEN <<>> ELSE Tail(rows)

\* r.get(key, default) of a record read under the header row hdr.
RecordGet(hdr, r, key, default) ==
    IF \E i \in 1..Len(hdr) : hdr[i] = key /\ i <= Len(r)
    THEN r[CHOOSE i \in 1..Len(hdr) : hdr[i] = key /\ i <= Len(r)]
    ELSE default

H_id == <<"i", "d">>
H_category == <<"c", "a", "t", "e", "g", "o", "r", "y">>
H_budget == <<"b", "u", "d", "g", "e", "t">>
H_type == <<"t", "y", "p", "e">>
H_amount == <<"a", "m", "o", "u", "n", "t">>
H_note == <<"n", "o", "t", "e">>
H_date == <<"d", "a", "t", "e">>

CatHeaders == <<H_id, H_category, H_budget, H_type>>
ExpHeaders == <<H_id, H_category, H_amount, H_note, H_date>>

Monthly == <<"M", "o", "n", "t", "h", "l", "y">>
Weekly == <<"W", "e", "e", "k", "l", "y">>
Yearly == <<"Y", "e", "a", "r", "l", "y">>
OneTime == <<"O", "n", "e", "-", "t", "i", "m", "e">>

EmptyStr == <<>>

-----------------------------------------------------------------------------
(* ensure_ws *)

\* The rows of worksheet `title` after ensure_ws(sh, title, headers);
\* deleteFails: the delete_rows(1) call raised and the exception was swallowed.
EnsureWs(exists, rows, headers, deleteFails) ==
    IF ~exists THEN AppendRow(<<>>, headers)
    ELSE IF RowValues(rows, 1) # headers
         THEN InsertRow(IF deleteFails THEN rows ELSE DeleteRows(rows, 1), headers, 1)
         ELSE rows

-----------------------------------------------------------------------------
(* load_data_from_sheets *)
EmptyDict == [k \in {} |-> 0]

DictSet(d, k, v) == (k :> v) @@ d

\* Mutant of LoadCatRecords: a budget that does not convert is taken as 0,
\* as the amount of an expense is.
RECURSIVE LoadCatRecordsSwallow(_, _, _)
LoadCatRecordsSwallow(hdr, records, st) ==
    IF records = <<>> THEN st
    ELSE LET r == Head(records)
             name == Strip(RecordGet(hdr, r, H_category, EmptyStr))
             rid == RecordGet(hdr, r, H_id, EmptyStr)
             b == RecordGet(hdr, r, H_budget, EmptyStr)
             rtype == RecordGet(hdr, r, H_type, EmptyStr)
         IN IF name = EmptyStr THEN LoadCatRecordsSwallow(hdr, Tail(records), st)
            ELSE LoadCatRecordsSwallow(hdr, Tail(records),
                   [st EXCEPT
                      !.n = IF rid # EmptyStr THEN st.n ELSE st.n + 1,
                      !.cats = DictSet(st.cats, name,
                                 [id |-> IF rid # EmptyStr THEN rid ELSE Uuid(st.n + 1),
                                  budget |-> IF b # EmptyStr /\ IsFloatText(b)
                                             THEN IntOfFloatText(b) ELSE 0,
                                  type |-> IF rtype # EmptyStr THEN rtype ELSE Monthly,
                                  expenses |-> <<>>])])

\* The loop over cat_records. st is [cats, n, raised]: the dictionary built so
\* far, the number of uuids drawn, and whether the conversion of a budget
\* raised (which ends the function).
RECURSIVE LoadCatRecords(_, _, _)
LoadCatRecords(hdr, records, st) ==
    IF records = <<>> \/ st.raised THEN st
    ELSE LET r == Head(records)
             name == Strip(RecordGet(hdr, r, H_category, EmptyStr))
             rid == RecordGet(hdr, r, H_id, EmptyStr)
             cid == IF rid # EmptyStr THEN rid ELSE Uuid(st.n + 1)
             n1 == IF rid # EmptyStr THEN st.n ELSE st.n + 1
             b == RecordGet(hdr, r, H_budget, EmptyStr)
             rtype == RecordGet(hdr, r, H_type, EmptyStr)
             btype == IF rtype # EmptyStr THEN rtype ELSE Monthly
         IN IF name = EmptyStr THEN LoadCatRecords(hdr, Tail(records), st)
            ELSE IF b # EmptyStr /\ ~IsFloatText(b)
                 THEN [st EXCEPT !.n = n1, !.raised = TRUE]
                 ELSE LoadCatRecords(hdr, Tail(records),
                        [st EXCEPT
                           !.n = n1,
                           !.cats = DictSet(st.cats, name,
                                      [id |-> cid,
                                       budget |-> IF b = EmptyStr THEN 0
                                                  ELSE IntOfFloatText(b),
                                       type |-> btype,
                                       expenses |-> <<>>])])

\* The amount of an expense record: a conversion that fails gives 0.
LoadAmount(a) ==
    IF a = EmptyStr THEN 0
    ELSE IF IsFloatText(a) THEN IntOfFloatText(a) ELSE 0

\* Mutant of LoadExpRecords: the category name of an expense record is taken
\* as written, without strip().
RECURSIVE LoadExpRecordsNoStrip(_, _, _)
LoadExpRecordsNoStrip(hdr, records, st) ==
    IF records = <<>> \/ st.raised THEN st
    ELSE LET r == Head(records)
             cat == RecordGet(hdr, r, H_category, EmptyStr)
             rid == RecordGet(hdr, r, H_id, EmptyStr)
             n1 == IF rid # EmptyStr THEN st.n ELSE st.n + 1
             known == cat \in DOMAIN st.cats
             cats1 == IF known THEN st.cats
                      ELSE DictSet(st.cats, cat,
                             [id |-> Uuid(n1 + 1), budget |-> 0, type |-> Monthly,
                              expenses |-> <<>>])
             e == [id |-> IF rid # EmptyStr THEN rid ELSE Uuid(st.n + 1),
                   amount |-> LoadAmount(RecordGet(hdr, r, H_amount, EmptyStr)),
                   note |-> RecordGet(hdr, r, H_note, EmptyStr),
                   date |-> RecordGet(hdr, r, H_date, EmptyStr)]
         IN IF cat = EmptyStr THEN LoadExpRecordsNoStrip(hdr, Tail(records), st)
            ELSE LoadExpRecordsNoStrip(hdr, Tail(records),
                   [st EXCEPT
                      !.n = IF known THEN n1 ELSE n1 + 1,
                      !.cats = [cats1 EXCEPT ![cat].expenses = Append(@, e)]])

\* The loop over exp_records.
RECURSIVE LoadExpRecords(_, _, _)
LoadExpRecords(hdr, records, st) ==
    IF records = <<>> \/ st.raised THEN st
    ELSE LET r == Head(records)
             cat == Strip(RecordGet(hdr, r, H_category, EmptyStr))
             rid == RecordGet(hdr, r, H_id, EmptyStr)
             eid == IF rid # EmptyStr THEN rid ELSE Uuid(st.n + 1)
             n1 == IF rid # EmptyStr THEN st.n ELSE st.n + 1
             amount == LoadAmount(RecordGet(hdr, r, H_amount, EmptyStr))
             note == RecordGet(hdr, r, H_note, EmptyStr)
             date == RecordGet(hdr, r, H_date, EmptyStr)
             known == cat \in DOMAIN st.cats
             n2 == IF known THEN n1 ELSE n1 + 1
             cats1 == IF known THEN st.cats
                      ELSE DictSet(st.cats, cat,
                             [id |-> Uuid(n1 + 1), budget |-> 0, type |-> Monthly,
                              expenses |-> <<>>])
             e == [id |-> eid, amount |-> amount, note |-> note, date |-> date]
         IN IF cat = EmptyStr THEN LoadExpRecords(hdr, Tail(records), st)
            ELSE LoadExpRecords(hdr, Tail(records),
                   [st EXCEPT
                      !.n = n2,
                      !.cats = [cats1 EXCEPT ![cat].expenses = Append(@, e)]])

\* load_data_from_sheets(cat_ws, exp_ws) with n uuids drawn before the call;
\* catOk, expOk: the get_all_records() call on that worksheet did not raise.
LoadDataFromSheets(cws, ews, catOk, expOk, n) ==
    LET cat_records == IF catOk THEN GetAllRecords(cws) ELSE <<>>
        exp_records == IF expOk THEN GetAllRecords(ews) ELSE <<>>
        st0 == [cats |-> EmptyDict, n |-> n, raised |-> FALSE]
        st1 == LoadCatRecords(RowValues(cws, 1), cat_records, st0)
    IN LoadExpRecords(RowValues(ews, 1), exp_records, st1)

-----------------------------------------------------------------------------
(* append_category, append_expense *)

\* append_category(cat_ws, name, budget, btype), the n+1st uuid being drawn.
AppendCategory(rows, name, budget, btype, n) ==
    AppendRow(rows, <<Uuid(n + 1), name, IntToStr(budget), btype>>)

\* append_expense(exp_ws, category, amount, note, date)
AppendExpense(rows, category, amount, note, date, n) ==
    AppendRow(rows, <<Uuid(n + 1), category, IntToStr(amount), note, date>>)

-----------------------------------------------------------------------------
(* delete_category_and_its_expenses *)

\* rows_to_delete: the indices i >= 2, ascending, of the rows of vals whose
\* column col holds value (enumerate(vals[1:], start=2)).
RECURSIVE RowsToDeleteFrom(_, _, _, _)
RowsToDeleteFrom(vals, col, value, i) ==
    IF i > Len(vals) THEN <<>>
    ELSE (IF Len(vals[i]) >= col /\ vals[i][col] = value THEN <<i>> ELSE <<>>)
         \o RowsToDeleteFrom(vals, col, value, i + 1)

\* Mutant of RowsToDelete: enumerate(vals[1:], start=1), every index one too
\* small.
RowsToDeleteOffByOne(vals, col, value) ==
    LET x == RowsToDeleteFrom(vals, col, value, 2)
    IN [k \in 1..Len(x) |-> x[k] - 1]

RowsToDelete(vals, col, value) == RowsToDeleteFrom(vals, col, value, 2)

\* Mutant of DeleteReversed: the rows are deleted in ascending order, so each
\* deletion shifts the indices still to be deleted.
RECURSIVE DeleteForward(_, _)
DeleteForward(rows, idx) ==
    IF idx = <<>> THEN rows
    ELSE DeleteForward(DeleteRows(rows, Head(idx)), Tail(idx))

\* for r in reversed(rows_to_delete): ws.delete_rows(r)
RECURSIVE DeleteReversed(_, _)
DeleteReversed(rows, idx) ==
    IF idx = <<>> THEN rows
    ELSE DeleteReversed(DeleteRows(rows, idx[Len(idx)]), SubSeq(idx, 1, Len(idx) - 1))

\* One half of delete_category_and_its_expenses: the pass over one worksheet.
DeleteMatching(rows, category_name) ==
    DeleteReversed(rows, RowsToDelete(GetAllValues(rows), 2, category_name))

-----------------------------------------------------------------------------
(* delete_expense_by_id, update_expense_amount *)

\* Mutant of FirstRowWithId: the scan does not stop at the first match and
\* ends on the last one.
LastRowWithId(vals, exp_id) ==
    IF \E i \in 2..Len(vals) : Len(vals[i]) >= 1 /\ vals[i][1] = exp_id
    THEN CHOOSE i \in 2..Len(vals) :
           /\ Len(vals[i]) >= 1 /\ vals[i][1] = exp_id
           /\ \A j \in (i + 1)..Len(vals) : ~(Len(vals[j]) >= 1 /\ vals[j][1] = exp_id)
    ELSE 0

\* The index of the first row below the header whose id column is exp_id; 0
\* when there is none.
FirstRowWithId(vals, exp_id) ==
    IF \E i \in 2..Len(vals) : Len(vals[i]) >= 1 /\ vals[i][1] = exp_id
    THEN CHOOSE i \in 2..Len(vals) :
           /\ Len(vals[i]) >= 1 /\ vals[i][1] = exp_id
           /\ \A j \in 2..(i - 1) : ~(Len(vals[j]) >= 1 /\ vals[j][1] = exp_id)
    ELSE 0

\* delete_expense_by_id(exp_ws, exp_id): the rows left and the value returned.
DeleteExpenseById(rows, exp_id) ==
    LET i == FirstRowWithId(GetAllValues(rows), exp_id)
    IN IF i # 0 THEN [rows |-> DeleteRows(rows, i), ret |-> "True"]
       ELSE [rows |-> rows, ret |-> "False"]

\* An optional note: <<>> is None, <<t>> is the text t.
NoneNote == <<>>

SomeNote(t) == <<t>>

\* Mutant of UpdateExpenseAmount: the columns are counted from 0, so the
\* amount lands in the note column and the note in the date column.
UpdateExpenseAmountShifted(rows, exp_id, new_amount, new_note) ==
    LET i == FirstRowWithId(GetAllValues(rows), exp_id)
        r1 == UpdateCell(rows, i, 4, IntToStr(new_amount))
        r2 == IF new_note # NoneNote THEN UpdateCell(r1, i, 5, new_note[1]) ELSE r1
    IN IF i # 0 THEN [rows |-> r2, ret |-> "True"]
       ELSE [rows |-> rows, ret |-> "False"]

\* update_expense_amount(exp_ws, exp_id, new_amount, new_note)
UpdateExpenseAmount(rows, exp_id, new_amount, new_note) ==
    LET i == FirstRowWithId(GetAllValues(rows), exp_id)
        r1 == UpdateCell(rows, i, 3, IntToStr(new_amount))
        r2 == IF new_note # NoneNote THEN UpdateCell(r1, i, 4, new_note[1]) ELSE r1
    IN IF i # 0 THEN [rows |-> r2, ret |-> "True"]
       ELSE [rows |-> rows, ret |-> "False"]

-----------------------------------------------------------------------------
(* The texts and rows the model draws from. *)
T_a == <<"a">>
T_sp_a == <<" ", "a">>
T_b == <<"b">>
T_sp == <<" ">>
T_n == <<"n">>
T_k == <<"k">>
T_d1 == <<"d", "1">>
T_d2 == <<"d", "2">>
T_abc == <<"a", "b", "c">>
T_12_9 == <<"1", "2", ".", "9">>
ID_c1 == <<"c", "1">>
ID_c3 == <<"c", "3">>
ID_e1 == <<"e", "1">>
ID_e4 == <<"e", "4">>
ID_e9 == <<"e", "9">>

SeqsUpTo(S, n) == UNION {[1..k -> S] : k \in 0..n}

\* Rows a "categories" worksheet may hold when the program starts: written by
\* the program earlier, or typed into the sheet by hand.
CatRowPool ==
    { <<ID_c1, T_a, IntToStr(5), Weekly>>,
      <<EmptyStr, T_sp_a, EmptyStr, EmptyStr>>,
      <<ID_c3, T_b, T_abc, Yearly>> }

\* Rows an "expenses" worksheet may hold when the program starts.
ExpRowPool ==
    { <<ID_e1, T_a, IntToStr(3), T_n, T_d1>>,
      <<ID_e1, T_sp_a, T_abc, EmptyStr, EmptyStr>>,
      <<EmptyStr, T_b, T_12_9, EmptyStr, T_d2>>,
      <<ID_e4, T_sp, IntToStr(4), T_k, T_d1>> }

\* A first row that is not the expected header row.
StaleCatHeaders == <<H_id, <<"n", "a", "m", "e">>, H_budget, H_type>>
StaleExpHeaders == <<H_id, H_category, H_amount, H_note, <<"w", "h", "e", "n">>>>

CatSheets0 ==
    {<<>>}
    \cup {<<CatHeaders>> \o r : r \in SeqsUpTo(CatRowPool, MaxCatRows)}
    \cup {<<StaleCatHeaders>> \o r : r \in SeqsUpTo(CatRowPool, MaxStaleRows)}

ExpSheets0 ==
    {<<>>}
    \cup {<<ExpHeaders>> \o r : r \in SeqsUpTo(ExpRowPool, MaxExpRows)}
    \cup {<<StaleExpHeaders>> \o r : r \in SeqsUpTo(ExpRowPool, MaxStaleRows)}

Titles == {"categories", "expenses"}

NameArgs == {T_a, T_sp_a, T_b}
IdArgs == {ID_e1, ID_e4, ID_e9, EmptyStr}
AmountArgs == {7, -2}
NoteArgs == {NoneNote, SomeNote(EmptyStr), SomeNote(T_k)}
BudgetArgs == {0, 5}

NoSess == [s \in {} |-> 0]

-----------------------------------------------------------------------------
(* Specification Spec: the start of the script (both ensure_ws calls), then  *)
(* one call of one of the script's functions on the worksheets.              *)
Init ==
    /\ pc = "boot"
    /\ cat_ws \in CatSheets0
    /\ exp_ws \in ExpSheets0
    /\ sheets \in SUBSET Titles
    /\ ("categories" \notin sheets => cat_ws = <<>>)
    /\ ("expenses" \notin sheets => exp_ws = <<>>)
    /\ categories = EmptyDict
    /\ loaded = FALSE
    /\ uuid_n = 0
    /\ op = [name |-> "start"]
    /\ ret = "None"
    /\ prev_cat = cat_ws
    /\ prev_exp = exp_ws
    /\ prev_uuid = 0
    /\ faulty = FALSE
    /\ sess = NoSess

\* The frame every function call leaves: what it was called on is recorded.
Called(o, r, failed) ==
    /\ pc' = "done"
    /\ faulty' = (faulty \/ failed)
    /\ op' = o
    /\ ret' = r
    /\ prev_cat' = cat_ws
    /\ prev_exp' = exp_ws
    /\ prev_uuid' = uuid_n
    /\ UNCHANGED <<sheets, sess>>

\* cat_ws = ensure_ws(sh, "categories", ...); exp_ws = ensure_ws(sh, "expenses", ...)
FnEnsureWs ==
    /\ pc = "boot"
    /\ \E cf, ef \in BOOLEAN :
         /\ cf => ("categories" \in sheets /\ RowValues(cat_ws, 1) # CatHeaders)
         /\ ef => ("expenses" \in sheets /\ RowValues(exp_ws, 1) # ExpHeaders)
         /\ cat_ws' = EnsureWs("categories" \in sheets, cat_ws, CatHeaders, cf)
         /\ exp_ws' = EnsureWs("expenses" \in sheets, exp_ws, ExpHeaders, ef)
         /\ faulty' = (cf \/ ef)
         /\ op' = [name |-> "ensure_ws", catFails |-> cf, expFails |-> ef,
                   catExisted |-> "categories" \in sheets,
                   expExisted |-> "expenses" \in sheets]
    /\ sheets' = Titles
    /\ pc' = "ready"
    /\ ret' = "None"
    /\ prev_cat' = cat_ws
    /\ prev_exp' = exp_ws
    /\ prev_uuid' = uuid_n
    /\ UNCHANGED <<categories, loaded, uuid_n, sess>>

\* load_data_from_sheets(cat_ws, exp_ws), assigned to the session state when
\* it returns.
FnLoad ==
    /\ pc = "ready"
    /\ \E catOk, expOk \in BOOLEAN :
         \E st \in {LoadDataFromSheets(cat_ws, exp_ws, catOk, expOk, uuid_n)} :
            /\ uuid_n' = st.n
            /\ categories' = IF st.raised THEN categories ELSE st.cats
            /\ loaded' = IF st.raised THEN loaded ELSE TRUE
            /\ Called([name |-> "load", catOk |-> catOk, expOk |-> expOk],
                      IF st.raised THEN "raised" ELSE "None", ~catOk \/ ~expOk)
    /\ UNCHANGED <<cat_ws, exp_ws>>

FnAppendCategory ==
    /\ pc = "ready"
    /\ \E name \in NameArgs, budget \in BudgetArgs :
         /\ cat_ws' = AppendCategory(cat_ws, name, budget, Weekly, uuid_n)
         /\ Called([name |-> "append_category", cat |-> name, budget |-> budget,
                    type |-> Weekly], "None", FALSE)
    /\ uuid_n' = uuid_n + 1
    /\ UNCHANGED <<exp_ws, categories, loaded>>

FnAppendExpense ==
    /\ pc = "ready"
    /\ \E name \in NameArgs, note \in {EmptyStr, T_k} :
         /\ exp_ws' = AppendExpense(exp_ws, name, 7, note, T_d2, uuid_n)
         /\ Called([name |-> "append_expense", cat |-> name, amount |-> 7,
                    note |-> note, date |-> T_d2], "None", FALSE)
    /\ uuid_n' = uuid_n + 1
    /\ UNCHANGED <<cat_ws, categories, loaded>>

FnDeleteCategory ==
    /\ pc = "ready"
    /\ \E N \in NameArgs :
         /\ cat_ws' = DeleteMatching(cat_ws, N)
         /\ exp_ws' = DeleteMatching(exp_ws, N)
         /\ Called([name |-> "delete_category", cat |-> N], "None", FALSE)
    /\ UNCHANGED <<categories, loaded, uuid_n>>

FnDeleteExpense ==
    /\ pc = "ready"
    /\ \E id \in IdArgs :
         LET r == DeleteExpenseById(exp_ws, id)
         IN /\ exp_ws' = r.rows
            /\ Called([name |-> "delete_expense", id |-> id], r.ret, FALSE)
    /\ UNCHANGED <<cat_ws, categories, loaded, uuid_n>>

FnUpdateExpense ==
    /\ pc = "ready"
    /\ \E id \in IdArgs, amount \in AmountArgs, note \in NoteArgs :
         LET r == UpdateExpenseAmount(exp_ws, id, amount, note)
         IN /\ exp_ws' = r.rows
            /\ Called([name |-> "update_expense", id |-> id, amount |-> amount,
                       note |-> note], r.ret, FALSE)
    /\ UNCHANGED <<cat_ws, categories, loaded, uuid_n>>

Next ==
    \/ FnEnsureWs
    \/ FnLoad
    \/ FnAppendCategory
    \/ FnAppendExpense
    \/ FnDeleteCategory
    \/ FnDeleteExpense
    \/ FnUpdateExpense

Spec == Init /\ [][Next]_vars

-----------------------------------------------------------------------------
(* Specification SpecApp: one browser session of the script. Every           *)
(* interaction re-runs the script from the top (lines 133-139) and then the  *)
(* handler of the button that was pressed.                                   *)
NameInputs == {EmptyStr, T_sp, T_a, T_sp_a, T_b}
BudgetInputs == {5}
\* Two of the four options of the "Type" selectbox.
TypeInputs == {Monthly, Weekly}
AmountInputs == {0, 3}
NoteInputs == {EmptyStr, T_n}
DateInputs == {T_d1}

AppCatSheets0 == {<<>>, <<CatHeaders>>, <<CatHeaders, <<ID_c1, T_a, IntToStr(5), Weekly>>>>}

AppExpSheets0 == {<<>>, <<ExpHeaders>>, <<ExpHeaders, <<ID_e1, T_a, IntToStr(3), T_n, T_d1>>>>}

InitApp ==
    /\ pc = "boot"
    /\ cat_ws \in AppCatSheets0
    /\ exp_ws \in AppExpSheets0
    /\ sheets \in {{}, Titles}
    /\ ("categories" \notin sheets => cat_ws = <<>>)
    /\ ("expenses" \notin sheets => exp_ws = <<>>)
    /\ categories = EmptyDict
    /\ loaded = FALSE
    /\ uuid_n = 0
    /\ op = [name |-> "start"]
    /\ ret = "None"
    /\ prev_cat = cat_ws
    /\ prev_exp = exp_ws
    /\ prev_uuid = 0
    /\ faulty = FALSE
    /\ sess = NoSess

\* The end of every run of the script that reloads: the worksheets as the run
\* leaves them, st.session_state.categories = load_data_from_sheets(...).
\* An exception ends the run before the assignment. In this specification
\* the reads of the worksheets succeed (Spec has the loads whose reads fail).
Reload(cws, ews, n, failed) ==
    \E st \in {LoadDataFromSheets(cws, ews, TRUE, TRUE, n)} :
       /\ st.n <= MaxUuid
       /\ uuid_n' = st.n
       /\ categories' = IF st.raised THEN categories ELSE st.cats
       /\ loaded' = IF st.raised THEN loaded ELSE TRUE
       /\ ret' = IF st.raised THEN "raised" ELSE "success"
       /\ faulty' = (faulty \/ failed)

\* What a run records: the button pressed and the widgets' values.
Ran(o) ==
    /\ op' = o
    /\ sheets' = Titles
    /\ UNCHANGED <<prev_cat, prev_exp, prev_uuid, sess>>

\* A run with no button pressed and nothing in the session state: the first
\* run, or a run after one that an exception ended (lines 133-139).
AppStart ==
    /\ ~loaded
    /\ \E cf, ef \in BOOLEAN :
         /\ cf => ("categories" \in sheets /\ RowValues(cat_ws, 1) # CatHeaders)
         /\ ef => ("expenses" \in sheets /\ RowValues(exp_ws, 1) # ExpHeaders)
         /\ cat_ws' = EnsureWs("categories" \in sheets, cat_ws, CatHeaders, cf)
         /\ exp_ws' = EnsureWs("expenses" \in sheets, exp_ws, ExpHeaders, ef)
         /\ Reload(cat_ws', exp_ws', uuid_n, cf \/ ef)
    /\ pc' = "ready"
    /\ Ran([name |-> "start"])

\* The buttons exist once a run has reached them: the snapshot is loaded, and
\* both ensure_ws calls of the run found the header rows in place.
ButtonRun ==
    /\ loaded
    /\ pc = "ready"
    /\ EnsureWs(TRUE, cat_ws, CatHeaders, FALSE) = cat_ws
    /\ EnsureWs(TRUE, exp_ws, ExpHeaders, FALSE) = exp_ws

\* "Add Category" (lines 144-154)
AppAddCategory ==
    /\ ButtonRun
    /\ \E new_cat \in NameInputs, new_budget \in BudgetInputs, budget_type \in TypeInputs :
         IF new_cat # EmptyStr /\ new_cat \notin DOMAIN categories
            THEN /\ Len(cat_ws) <= MaxAppRows
                 /\ uuid_n < MaxUuid
                 /\ cat_ws' = AppendCategory(cat_ws, new_cat, new_budget, budget_type, uuid_n)
                 /\ Reload(cat_ws', exp_ws, uuid_n + 1, FALSE)
                 /\ Ran([name |-> "add_category", cat |-> new_cat,
                         budget |-> new_budget, type |-> budget_type])
            ELSE /\ ret' = "warning"
                 /\ Ran([name |-> "add_category", cat |-> new_cat])
                 /\ UNCHANGED <<cat_ws, categories, loaded, uuid_n, faulty>>
    /\ UNCHANGED <<exp_ws, pc>>

\* "Add Expense" (lines 157-172)
AppAddExpense ==
    /\ ButtonRun
    /\ DOMAIN categories # {}
    /\ \E cat_choice \in DOMAIN categories, amt \in AmountInputs, note \in NoteInputs,
          now \in DateInputs :
         IF amt > 0
            THEN /\ Len(exp_ws) <= MaxAppRows
                 /\ uuid_n < MaxUuid
                 /\ exp_ws' = AppendExpense(exp_ws, cat_choice, amt, note, now, uuid_n)
                 /\ Reload(cat_ws, exp_ws', uuid_n + 1, FALSE)
                 /\ Ran([name |-> "add_expense", cat |-> cat_choice])
            ELSE /\ ret' = "warning"
                 /\ Ran([name |-> "add_expense", cat |-> cat_choice])
                 /\ UNCHANGED <<exp_ws, categories, loaded, uuid_n, faulty>>
    /\ UNCHANGED <<cat_ws, pc>>

\* "Delete Category" (lines 175-183)
AppDeleteCategory ==
    /\ ButtonRun
    /\ DOMAIN categories # {}
    /\ \E to_delete \in DOMAIN categories :
         /\ Ran([name |-> "delete_category", cat |-> to_delete])
         /\ cat_ws' = DeleteMatching(cat_ws, to_delete)
         /\ exp_ws' = DeleteMatching(exp_ws, to_delete)
         /\ Reload(cat_ws', exp_ws', uuid_n, FALSE)
    /\ UNCHANGED pc

\* The expenses the "Edit / Delete an Expense" expander offers (lines 225-233).
Selectable == {<<k, i>> \in (DOMAIN categories) \X (1..(MaxAppRows + 1)) :
                  i <= Len(categories[k].expenses)}

\* "Delete selected expense" (lines 236-239)
AppDeleteExpense ==
    /\ ButtonRun
    /\ \E sel \in Selectable :
         LET sel_exp == categories[sel[1]].expenses[sel[2]]
             r == DeleteExpenseById(exp_ws, sel_exp.id)
         IN /\ Ran([name |-> "delete_expense", id |-> sel_exp.id, found |-> r.ret])
            /\ exp_ws' = r.rows
            /\ Reload(cat_ws, exp_ws', uuid_n, FALSE)
    /\ UNCHANGED <<cat_ws, pc>>

\* "Save edit" (lines 241-246)
AppSaveEdit ==
    /\ ButtonRun
    /\ \E sel \in Selectable, new_amt \in AmountInputs, new_note \in NoteInputs :
         LET sel_exp == categories[sel[1]].expenses[sel[2]]
             r == UpdateExpenseAmount(exp_ws, sel_exp.id, new_amt, SomeNote(new_note))
         IN /\ Ran([name |-> "save_edit", id |-> sel_exp.id, found |-> r.ret])
            /\ exp_ws' = r.rows
            /\ Reload(cat_ws, exp_ws', uuid_n, FALSE)
    /\ UNCHANGED <<cat_ws, pc>>

\* "Clear local session cache" (lines 271-274): the snapshot is dropped and
\* the script runs again from the top, which loads it anew.
AppClearCache ==
    /\ ButtonRun
    /\ Ran([name |-> "clear_cache"])
    /\ \E st \in {LoadDataFromSheets(cat_ws, exp_ws, TRUE, TRUE, uuid_n)} :
          /\ st.n <= MaxUuid
          /\ uuid_n' = st.n
          /\ categories' = IF st.raised THEN EmptyDict ELSE st.cats
          /\ loaded' = ~st.raised
          /\ ret' = IF st.raised THEN "raised" ELSE "success"
          /\ UNCHANGED faulty
    /\ UNCHANGED <<cat_ws, exp_ws, pc>>

NextApp ==
    \/ AppStart
    \/ AppAddCategory
    \/ AppAddExpense
    \/ AppDeleteCategory
    \/ AppDeleteExpense
    \/ AppSaveEdit
    \/ AppClearCache

SpecApp == InitApp /\ [][NextApp]_vars

-----------------------------------------------------------------------------
(* Specification SpecRace: two sessions on the same spreadsheet, each        *)
(* running delete_expense_by_id or delete_category_and_its_expenses. Each    *)
(* call of the worksheet (get_all_values, delete_rows) is one step; the      *)
(* scan of the rows read runs with the read.                                 *)
Sessions == {1, 2}

RaceCatRows == {<<ID_c1, T_a, IntToStr(5), Weekly>>, <<ID_c3, T_b, IntToStr(5), Monthly>>}

RaceExpRows ==
    { <<ID_e1, T_a, IntToStr(3), T_n, T_d1>>,
      <<ID_e4, T_b, IntToStr(4), T_k, T_d1>>,
      <<ID_e9, T_a, IntToStr(7), EmptyStr, T_d2>> }

\* The sequences of at most n rows of S, no row twice.
DistinctSeqs(S, n) ==
    {q \in SeqsUpTo(S, n) : \A i, j \in 1..Len(q) : i # j => q[i] # q[j]}

Idle == [pc |-> "idle", fn |-> "none", target |-> EmptyStr, todo |-> <<>>,
         ret |-> "None",
         early |-> FALSE,    \* it read before any session had deleted a row
         deleted |-> FALSE,  \* it has called delete_rows
         stale |-> FALSE,    \* a row was deleted by another session since it read
         raced |-> FALSE,    \* it has called delete_rows on a stale read
         wrong |-> FALSE]    \* it has deleted a row that it did not target

InitRace ==
    /\ pc = "race"
    /\ cat_ws \in {<<CatHeaders>> \o q : q \in DistinctSeqs(RaceCatRows, MaxRaceRows)}
    /\ exp_ws \in {<<ExpHeaders>> \o q : q \in DistinctSeqs(RaceExpRows, MaxRaceRows)}
    /\ sheets = Titles
    /\ categories = EmptyDict
    /\ loaded = FALSE
    /\ uuid_n = 0
    /\ op = [name |-> "start"]
    /\ ret = "None"
    /\ prev_cat = cat_ws
    /\ prev_exp = exp_ws
    /\ prev_uuid = 0
    /\ faulty = FALSE
    /\ sess = [s \in Sessions |-> Idle]

RaceFrame ==
    UNCHANGED <<sheets, categories, loaded, uuid_n, pc, op, ret, prev_cat, prev_exp,
                prev_uuid, faulty>>

NoneDeleted == \A u \in Sessions : ~sess[u].deleted

\* delete_expense_by_id, lines 113-115: the read and the scan.
RaceScanForId(s) ==
    /\ sess[s].pc = "idle"
    /\ \E id \in {ID_e1, ID_e4, ID_e9} :
         LET i == FirstRowWithId(GetAllValues(exp_ws), id)
         IN sess' = [sess EXCEPT ![s] =
                       [@ EXCEPT !.fn = "delete_expense", !.target = id,
                                 !.early = NoneDeleted,
                                 !.todo = IF i = 0 THEN <<>> ELSE <<i>>,
                                 !.ret = IF i = 0 THEN "False" ELSE "None",
                                 !.pc = IF i = 0 THEN "done" ELSE "exp_delete"]]
    /\ UNCHANGED <<cat_ws, exp_ws>>
    /\ RaceFrame

\* delete_category_and_its_expenses, lines 96-100: the read and the scan of
\* the categories worksheet.
RaceScanCat(s) ==
    /\ sess[s].pc = "idle"
    /\ \E name \in {T_a, T_b} :
         LET todo == RowsToDelete(GetAllValues(cat_ws), 2, name)
         IN sess' = [sess EXCEPT ![s] =
                       [@ EXCEPT !.fn = "delete_category", !.target = name,
                                 !.early = NoneDeleted,
                                 !.todo = todo,
                                 !.pc = IF todo = <<>> THEN "exp_scan" ELSE "cat_delete"]]
    /\ UNCHANGED <<cat_ws, exp_ws>>
    /\ RaceFrame

\* lines 104-108: the read and the scan of the expenses worksheet.
RaceScanExp(s) ==
    /\ sess[s].pc = "exp_scan"
    /\ LET todo == RowsToDelete(GetAllValues(exp_ws), 2, sess[s].target)
       IN sess' = [sess EXCEPT ![s] =
                     [@ EXCEPT !.todo = todo, !.stale = FALSE,
                               !.pc = IF todo = <<>> THEN "done" ELSE "exp_delete"]]
    /\ UNCHANGED <<cat_ws, exp_ws>>
    /\ RaceFrame

\* One delete_rows call (lines 102, 110, 116): the highest index still to be
\* deleted, on the worksheet as it is now.
RaceDeleteRow(s) ==
    /\ sess[s].pc \in {"cat_delete", "exp_delete"}
    /\ LET me == sess[s]
           onCat == me.pc = "cat_delete"
           rows == IF onCat THEN cat_ws ELSE exp_ws
           r == me.todo[Len(me.todo)]
           rest == SubSeq(me.todo, 1, Len(me.todo) - 1)
           col == IF me.fn = "delete_expense" THEN 1 ELSE 2
           hit == r \in 1..Len(rows)
           nextpc == IF rest # <<>> THEN me.pc
                     ELSE IF onCat THEN "exp_scan" ELSE "done"
       IN /\ cat_ws' = IF onCat THEN DeleteRows(cat_ws, r) ELSE cat_ws
          /\ exp_ws' = IF onCat THEN exp_ws ELSE DeleteRows(exp_ws, r)
          /\ sess' = [u \in Sessions |->
                        IF u = s
                        THEN [me EXCEPT !.todo = rest, !.pc = nextpc,
                                        !.deleted = TRUE,
                                        !.raced = @ \/ me.stale,
                                        !.wrong = @ \/ (hit /\ rows[r][col] # me.target),
                                        !.ret = IF me.fn = "delete_expense" THEN "True" ELSE @]
                        ELSE IF sess[u].pc = me.pc /\ hit
                             THEN [sess[u] EXCEPT !.stale = TRUE]
                             ELSE sess[u]]
    /\ RaceFrame

NextRace ==
    \E s \in Sessions :
        \/ RaceScanForId(s)
        \/ RaceScanCat(s)
        \/ RaceScanExp(s)
        \/ RaceDeleteRow(s)

SpecRace == InitRace /\ [][NextRace]_vars

-----------------------------------------------------------------------------
(* What the claims speak of. *)

\* The rows below row 1.
DataRows(rows) == IF rows = <<>> THEN <<>> ELSE Tail(rows)

\* rows without the rows below row 1 whose second column is N.
WithoutCategory(rows, N) ==
    IF rows = <<>> THEN <<>>
    ELSE <<rows[1]>> \o SelectSeq(Tail(rows), LAMBDA r : r[2] # N)

\* rows without row i.
WithoutRow(rows, i) == [k \in 1..(Len(rows) - 1) |-> IF k < i THEN rows[k] ELSE rows[k + 1]]

\* The indices of the rows below row 1 whose id column is id.
RowsWithId(rows, id) == {i \in 2..Len(rows) : rows[i][1] = id}

\* The name under which the loader files a row.
KeyOf(r) == Strip(r[2])

\* The place of record i among the records filed under the same name.
PosInKey(recs, i) == Cardinality({j \in 1..i : KeyOf(recs[j]) = KeyOf(recs[i])})

\* A text that no reading takes for a number: it holds a letter.
HasLetter(t) ==
    \E i \in 1..Len(t) : ~IsDigit(t[i]) /\ t[i] \notin {".", "-", "+", " "}

\* C10: after delete_category_and_its_expenses(N), each worksheet is what it
\* was with exactly the rows below the header whose second column equals N
\* removed; the header row and the other rows stay, in their order.
C10_CascadeRemovesExactlyMatching ==
    (pc = "done" /\ op.name = "delete_category") =>
        /\ cat_ws = WithoutCategory(prev_cat, op.cat)
        /\ exp_ws = WithoutCategory(prev_exp, op.cat)

\* C10 witness: a cascade delete that met two matching expense rows with a
\* non-matching row between them, and a matching category row.
C10_Witness ==
    /\ pc = "done" /\ op.name = "delete_category"
    /\ Len(prev_exp) = 4
    /\ prev_exp[2][2] = op.cat /\ prev_exp[3][2] # op.cat /\ prev_exp[4][2] = op.cat
    /\ \E i \in 2..Len(prev_cat) : prev_cat[i][2] = op.cat
    /\ Len(cat_ws) < Len(prev_cat)

\* C5: delete_expense_by_id deletes the first row whose id column equals the
\* id, only that row, and returns True; with no such row it returns False and
\* leaves the worksheet as it was.
C5_DeleteExpenseFirstMatchOnly ==
    (pc = "done" /\ op.name = "delete_expense") =>
        LET M == RowsWithId(prev_exp, op.id)
        IN /\ cat_ws = prev_cat
           /\ IF M # {}
              THEN /\ ret = "True"
                   /\ \E i \in M : (\A j \in M : i <= j) /\ exp_ws = WithoutRow(prev_exp, i)
              ELSE ret = "False" /\ exp_ws = prev_exp

\* C5 witness: a delete that met two rows with the id and left the second.
C5_Witness ==
    /\ pc = "done" /\ op.name = "delete_expense" /\ ret = "True"
    /\ Cardinality(RowsWithId(prev_exp, op.id)) = 2
    /\ Cardinality(RowsWithId(exp_ws, op.id)) = 1

\* The snapshot `cats` with the expense that record i of recs became given
\* the amount and, when one is supplied, the note.
WithEdit(cats, recs, i, amount, note) ==
    LET k == KeyOf(recs[i])
        p == PosInKey(recs, i)
    IN IF k = EmptyStr THEN cats
       ELSE [cats EXCEPT ![k].expenses[p] =
               [@ EXCEPT !.amount = amount,
                         !.note = IF note = NoneNote THEN @ ELSE note[1]]]

\* C2 as stated: after update_expense_amount, a reload differs from the load
\* before it only in the amount (and note) of the expense that was matched,
\* and the call returns True; with no match it returns False and the
\* worksheet is as it was.
C2_Original_UpdateChangesOnlyTarget ==
    (pc = "done" /\ op.name = "update_expense") =>
        LET M == RowsWithId(prev_exp, op.id)
            before == LoadDataFromSheets(prev_cat, prev_exp, TRUE, TRUE, uuid_n)
            after == LoadDataFromSheets(cat_ws, exp_ws, TRUE, TRUE, before.n)
        IN IF M # {}
           THEN /\ ret = "True"
                /\ ~before.raised =>
                     \E i \in M :
                        /\ \A j \in M : i <= j
                        /\ ~after.raised
                        /\ after.cats = WithEdit(before.cats, DataRows(prev_exp), i - 1,
                                                 op.amount, op.note)
           ELSE ret = "False" /\ exp_ws = prev_exp

\* C2 as amended: the same, the two loads drawing the same fresh ids (the ids
\* of rows with an empty id cell and of placeholder categories are drawn anew
\* at every load and are no part of what is compared).
C2_UpdateChangesOnlyTarget ==
    (pc = "done" /\ op.name = "update_expense") =>
        LET M == RowsWithId(prev_exp, op.id)
            before == LoadDataFromSheets(prev_cat, prev_exp, TRUE, TRUE, uuid_n)
            after == LoadDataFromSheets(cat_ws, exp_ws, TRUE, TRUE, uuid_n)
        IN /\ cat_ws = prev_cat
           /\ after.raised = before.raised
           /\ IF M # {}
              THEN /\ ret = "True"
                   /\ ~before.raised =>
                        \E i \in M :
                           /\ \A j \in M : i <= j
                           /\ after.cats = WithEdit(before.cats, DataRows(prev_exp), i - 1,
                                                    op.amount, op.note)
              ELSE ret = "False" /\ exp_ws = prev_exp

\* C2 witness: an update with a note that matched a row the loader files,
\* next to another expense of the same category, changed that row's amount.
C2_Witness ==
    /\ pc = "done" /\ op.name = "update_expense" /\ ret = "True"
    /\ op.note # NoneNote
    /\ exp_ws # prev_exp
    /\ LET before == LoadDataFromSheets(prev_cat, prev_exp, TRUE, TRUE, uuid_n)
           after == LoadDataFromSheets(cat_ws, exp_ws, TRUE, TRUE, uuid_n)
       IN /\ ~before.raised
          /\ after.cats # before.cats
          /\ \E k \in DOMAIN after.cats : Len(after.cats[k].expenses) >= 2

\* The records a load read: none from a worksheet whose read failed.
CatRecordsRead == IF op.catOk THEN DataRows(cat_ws) ELSE <<>>

ExpRecordsRead == IF op.expOk THEN DataRows(exp_ws) ELSE <<>>

\* The names of the category rows the load read, as written in the rows.
CatNamesWritten == {CatRecordsRead[i][2] : i \in 1..Len(CatRecordsRead)}

\* The names under which the load filed the category rows it read.
CatKeysLoaded == {KeyOf(CatRecordsRead[i]) : i \in 1..Len(CatRecordsRead)} \ {EmptyStr}

\* Expense e of the snapshot is what the loader makes of the row r.
IsExpenseOf(e, r) ==
    /\ r[1] # EmptyStr => e.id = r[1]
    /\ e.amount = LoadAmount(r[3])
    /\ e.note = r[4]
    /\ e.date = r[5]

\* C6 as stated (no worksheet call having failed): every expense row with a non-empty category name that no
\* category row bears is filed under that very name, in a category of budget
\* 0 and type Monthly, and the expenses of a name keep the rows' order.
C6_Original_PlaceholderUnderRowName ==
    (pc = "done" /\ op.name = "load" /\ ret = "None" /\ ~faulty) =>
        \A i \in 1..Len(ExpRecordsRead) :
            LET c == ExpRecordsRead[i][2]
                mine == SelectSeq(ExpRecordsRead, LAMBDA r : r[2] = c)
            IN (c # EmptyStr /\ c \notin CatNamesWritten) =>
                  /\ c \in DOMAIN categories
                  /\ categories[c].budget = 0
                  /\ categories[c].type = Monthly
                  /\ Len(categories[c].expenses) = Len(mine)
                  /\ \A p \in 1..Len(mine) : IsExpenseOf(categories[c].expenses[p], mine[p])

\* C6 as amended: names are taken with the surrounding whitespace stripped.
\* Every expense row whose stripped name is non-empty is filed under the
\* stripped name; when no category row was filed under it, the category has
\* budget 0 and type Monthly; the expenses of a name are exactly the rows
\* with that stripped name, in the rows' order.
C6_PlaceholderUnderStrippedName ==
    (pc = "done" /\ op.name = "load" /\ ret = "None") =>
        \A i \in 1..Len(ExpRecordsRead) :
            LET k == KeyOf(ExpRecordsRead[i])
                mine == SelectSeq(ExpRecordsRead, LAMBDA r : KeyOf(r) = k)
            IN k # EmptyStr =>
                  /\ k \in DOMAIN categories
                  /\ k \notin CatKeysLoaded =>
                        categories[k].budget = 0 /\ categories[k].type = Monthly
                  /\ Len(categories[k].expenses) = Len(mine)
                  /\ \A p \in 1..Len(mine) : IsExpenseOf(categories[k].expenses[p], mine[p])

\* C6 witness: a load that filed two expense rows, the second written with a
\* padded name, under a name no category row bears, and in the rows' order.
C6_Witness ==
    /\ pc = "done" /\ op.name = "load" /\ ret = "None" /\ op.expOk
    /\ \E k \in DOMAIN categories :
         /\ k \notin CatKeysLoaded
         /\ Len(categories[k].expenses) = 2
         /\ categories[k].expenses[1] # categories[k].expenses[2]
         /\ \E i \in 1..Len(ExpRecordsRead) :
              ExpRecordsRead[i][2] # k /\ KeyOf(ExpRecordsRead[i]) = k

\* C7 as stated (no worksheet call having failed): the load does not raise;
\* a category row whose budget is non-numeric text is loaded with budget 0
\* and an expense row whose amount is non-numeric text with amount 0.
C7_Original_SilentCoercion ==
    (pc = "done" /\ op.name = "load" /\ ~faulty) =>
        /\ ret # "raised"
        /\ \A i \in 1..Len(CatRecordsRead) :
             LET r == CatRecordsRead[i]
             IN (KeyOf(r) # EmptyStr /\ HasLetter(r[3])
                   /\ \A j \in (i + 1)..Len(CatRecordsRead) : KeyOf(CatRecordsRead[j]) # KeyOf(r))
                => categories[KeyOf(r)].budget = 0
        /\ \A i \in 1..Len(ExpRecordsRead) :
             LET r == ExpRecordsRead[i]
             IN (KeyOf(r) # EmptyStr /\ HasLetter(r[3]))
                => categories[KeyOf(r)].expenses[PosInKey(ExpRecordsRead, i)].amount = 0

\* C7 as amended: only the amount is coerced. A load that read a category
\* row with a name and a non-numeric budget raises; in a load that returns,
\* every expense row whose amount is non-numeric text has amount 0.
C7_AmountCoercedBudgetRaises ==
    (pc = "done" /\ op.name = "load") =>
        /\ (\E i \in 1..Len(CatRecordsRead) :
               KeyOf(CatRecordsRead[i]) # EmptyStr /\ HasLetter(CatRecordsRead[i][3]))
             => (ret = "raised" /\ ~loaded)
        /\ ret = "None" =>
             \A i \in 1..Len(ExpRecordsRead) :
                LET r == ExpRecordsRead[i]
                IN (KeyOf(r) # EmptyStr /\ HasLetter(r[3]))
                   => categories[KeyOf(r)].expenses[PosInKey(ExpRecordsRead, i)].amount = 0

\* C7 witness: a load that returned with an expense whose amount cell holds
\* non-numeric text, next to an expense with a numeric amount.
C7_Witness ==
    /\ pc = "done" /\ op.name = "load" /\ ret = "None"
    /\ \E i, j \in 1..Len(ExpRecordsRead) :
         /\ KeyOf(ExpRecordsRead[i]) # EmptyStr /\ HasLetter(ExpRecordsRead[i][3])
         /\ KeyOf(ExpRecordsRead[j]) = KeyOf(ExpRecordsRead[i])
         /\ categories[KeyOf(ExpRecordsRead[j])].expenses[PosInKey(ExpRecordsRead, j)].amount > 0

\* C4: ensure_ws on an existing worksheet whose first row is not the expected
\* header row leaves the header in row 1 and every row that was at index 2 or
\* later unchanged at its index, also when delete_rows(1) failed.
EnsurePreserves(before, after, headers) ==
    RowValues(before, 1) # headers =>
        /\ RowValues(after, 1) = headers
        /\ \A i \in 2..Len(before) : i <= Len(after) /\ after[i] = before[i]

C4_EnsureKeepsRowsInPlace ==
    (pc = "ready" /\ op.name = "ensure_ws") =>
        /\ op.catExisted => EnsurePreserves(prev_cat, cat_ws, CatHeaders)
        /\ op.expExisted => EnsurePreserves(prev_exp, exp_ws, ExpHeaders)

\* Session s has finished a call that found its target, and a row it
\* targeted is still in a worksheet.
LeftInPlace(s) ==
    /\ sess[s].pc = "done" /\ sess[s].ret # "False"
    /\ IF sess[s].fn = "delete_expense"
       THEN \E i \in 2..Len(exp_ws) : exp_ws[i][1] = sess[s].target
       ELSE \/ \E i \in 2..Len(exp_ws) : exp_ws[i][2] = sess[s].target
            \/ \E i \in 2..Len(cat_ws) : cat_ws[i][2] = sess[s].target

\* C8: the delete-by-index race exists (the witness is an interleaving in
\* which both sessions read before either deletes, one of them then deletes
\* a row it did not target and a targeted row is left in place), and it is a
\* race: a session deletes a row it did not target, or leaves a row it
\* targeted, only when it called delete_rows with indices read before
\* another session deleted a row of the same worksheet.
C8_WrongDeleteOnlyByRace ==
    pc = "race" =>
        \A s \in Sessions : (sess[s].wrong \/ LeftInPlace(s)) => sess[s].raced

\* C8 witness: both sessions read before either deleted; a session deleted a
\* row that it did not target and a session left its targeted row in place.
C8_Witness ==
    /\ pc = "race"
    /\ \A s \in Sessions : sess[s].early /\ sess[s].pc = "done"
    /\ \E s \in Sessions : sess[s].wrong
    /\ \E s \in Sessions : LeftInPlace(s)

\* C9: in a session in which no worksheet call failed, the categories
\* worksheet never holds two rows with the same name.
C9_CategoryNamesUnique ==
    (pc = "ready" /\ ~faulty) =>
        \A i, j \in 2..Len(cat_ws) : i # j => cat_ws[i][2] # cat_ws[j][2]

\* C3: after an accepted "Add Category" submission and the reload, the
\* snapshot has a category under the submitted name, with the submitted
\* budget and type and a non-empty id.
C3_AddCategoryRoundTrip ==
    (pc = "ready" /\ op.name = "add_category" /\ ret = "success" /\ ~faulty) =>
        /\ op.cat \in DOMAIN categories
        /\ categories[op.cat].budget = op.budget
        /\ categories[op.cat].type = op.type
        /\ categories[op.cat].id # EmptyStr

\* C1: after "Delete Category" of N and the reload, the snapshot has no key
\* N (and so no expense filed under N).
C1_CascadeRemovesCategory ==
    (pc = "ready" /\ op.name = "delete_category" /\ ret = "success" /\ ~faulty) =>
        op.cat \notin DOMAIN categories

====
